---- MODULE Spec2Model ----
(***************************************************************************)
(* The loopback signalling protocol of adaptiveui/modules/server.py:       *)
(* SocketServer (listener thread, one worker thread per connection) and    *)
(* SocketClient.send, with the Python dicts they share.                    *)
(*                                                                         *)
(* Python values are modelled as follows.  A dict is a function from its   *)
(* string keys to its values.  None is NoneId where a request id is        *)
(* expected and NoSignal where a signal name is expected.  A uuid4 string  *)
(* is a positive integer, a different one at every place that calls        *)
(* uuid.uuid4() (uuid4 values are taken to be fresh).  Bytes on the wire   *)
(* are a record that says whether they are a zlib stream, whether the     *)
(* text inside is a JSON object, what that object holds, and how long the  *)
(* text and the bytes are (one recv returns at most 1024 bytes).           *)
(***************************************************************************)
EXTENDS Integers, Sequences, FiniteSets, TLC

\* ------------------------------------------------------------------ bounds
\* Number of SocketClient.send calls (one connection each) in a run.
NClients == 2
\* Number of metadata providers the hosting application may attach.
MaxProviders == 2

Clients == 1 .. NClients

\* server.py:28  str(uuid.uuid4()): the value drawn by send call c (line 312),
\* and the one drawn by the worker of connection c when it builds its reply
ClientUuid(c) == c
ServerUuid(c) == NClients + c

\* --------------------------------------------------------------- constants
\* server.py:12  INSTANCE_ID = randint(0, 100000): the value this process drew.
INSTANCE_ID == 7
\* The instance id drawn by another process running the same application.
OTHER_INSTANCE == INSTANCE_ID + 1
\* server.py:127  the default "<UNKNOWN>" of .get("instance_id", ...): no integer
\* that randint can return.
UNKNOWN == 0 - 1
\* server.py:23  request_id: str = None
NoneId == 0
\* data.get("signal") of a document without a "signal" key
NoSignal == "<None>"
\* config.py:21  BuildConfigs.NAME
NAME == "AdaptiveUI"

\* server.py:15-20  class InternalSignals
ERROR_SIGNAL_IGNORED == "__error_signal_ignored"
ERROR_SIGNAL_NOT_FOUND == "__error_signal_not_found"
ERROR_REQUIREMENTS_MISMATCH == "__error_requirements_mismatch"
SUCCESS_SIGNAL_PROCESSED == "__success_signal_processed"
FETCH_SOCKET_METADATA == "__fetch_socket_metadata"

K_META == "__socket_metadata"
K_REQ == "__socket_requires"
K_RID == "request_id"

\* ------------------------------------------------------------ Python dicts
EmptyDict == [k \in {} |-> 0]

\* d.get(k, default)
Get(d, k, default) == IF k \in DOMAIN d THEN d[k] ELSE default

\* d[k] = v
Put(d, k, v) == [x \in (DOMAIN d) \cup {k} |-> IF x = k THEN v ELSE d[x]]

\* d.update(e)
Update(d, e) == [x \in (DOMAIN d) \cup (DOMAIN e) |-> IF x \in DOMAIN e THEN e[x] ELSE d[x]]

\* ------------------------------------------------------- generate_metadata
\* server.py:23-29.  inst is the INSTANCE_ID of the calling process, uuid the
\* value uuid.uuid4() returns if it is called.
generate_metadata(inst, request_id, uuid) ==
    [instance_id |-> inst,
     name        |-> NAME,
     timestamp   |-> "isoformat",
     request_id  |-> IF request_id # NoneId THEN request_id ELSE uuid]

\* ------------------------------------------------------------ dict_compare
\* server.py:32-40
dict_compare(d1, d2) ==
    LET d1_keys == DOMAIN d1
        d2_keys == DOMAIN d2
        shared_keys == d1_keys \cap d2_keys
        added == d1_keys \ d2_keys
        removed == d2_keys \ d1_keys
        modkeys == {o \in shared_keys : d1[o] # d2[o]}
        modified == [o \in modkeys |-> <<d1[o], d2[o]>>]
        same == shared_keys \ modkeys
    IN  <<added, removed, modified, same>>

\* ----------------------------------------------------------------- codec
\* server.py:119, 264  recv(1024): the most bytes one read returns
BUFSIZE == 1024

\* The size of a piece of text: chars is its length (len of the str, one byte
\* per character once encoded), deflated the length it adds to the zlib stream
\* of the text it is part of.
NoText == [chars |-> 0, deflated |-> 0]
\* The fixed part of a message: the braces and key names, the short values of
\* the metadata (instance id, name, timestamp, uuid) and of the requirements.
ShortText == [chars |-> 200, deflated |-> 150]
\* A value of 2000 random characters under the key "bulk": zlib cannot make it
\* shorter than one read.
RandomBulk == [chars |-> 2000, deflated |-> 1500]
\* A signal name made of one character repeated 2000 times: long as text, a few
\* bytes once deflated.
LongSignal == "LOOOOOOOONG"
LongSignalText == [chars |-> 2000, deflated |-> 20]

Plus(t, u) == [chars |-> t.chars + u.chars, deflated |-> t.deflated + u.deflated]
\* the characters of a signal name
SignalText(signal) ==
    IF signal = LongSignal THEN LongSignalText
    ELSE [chars |-> Len(signal), deflated |-> Len(signal)]
\* the characters of the value under "bulk", if the mapping has one
BulkText(d) == IF "bulk" \in DOMAIN d THEN d["bulk"] ELSE NoText

\* Bytes on the wire: z says the bytes are a complete zlib stream, json says
\* what the text inside is ("object": a JSON object, held in doc; "invalid":
\* anything json.loads or the following .get calls reject), text is the length
\* of the serialized text and n the number of bytes on the wire.

\* Mutant of Compress: the text is compressed only when it is longer than 1024
\* characters and written as it is otherwise.
Compress_Threshold(doc, text) ==
    [z |-> text.chars > 1024, json |-> "object", doc |-> doc, text |-> text.chars,
     n |-> IF text.chars > 1024 THEN text.deflated ELSE text.chars]

\* zlib.compress(text.encode()): a zlib stream, as long as the text deflates to
Compress(doc, text) ==
    [z |-> TRUE, json |-> "object", doc |-> doc, text |-> text.chars, n |-> text.deflated]

\* Mutant of ClientEncode: the text is written as it is, not compressed.
ClientEncode_Plain(signal, params) ==
    [z |-> FALSE, json |-> "object",
     doc |-> [k \in {"signal", "params"} |-> IF k = "signal" THEN signal ELSE params],
     text |-> Plus(Plus(ShortText, SignalText(signal)), BulkText(params)).chars,
     n |-> Plus(Plus(ShortText, SignalText(signal)), BulkText(params)).chars]

\* server.py:320-322  zlib.compress(json.dumps({"signal": signal, "params": params}).encode())
ClientEncode(signal, params) ==
    Compress([k \in {"signal", "params"} |-> IF k = "signal" THEN signal ELSE params],
             Plus(Plus(ShortText, SignalText(signal)), BulkText(params)))

\* server.py:197-202  zlib.compress(json.dumps({"signal": .., "params": ..}
\*                                  | {"__socket_metadata": metadata}).encode())
\* The text holds the signal name the message quotes and what the providers
\* attached.
ServerEncode(signal, params, metadata) ==
    Compress([k \in {"signal", "params", K_META} |->
                 IF k = "signal" THEN signal
                 ELSE IF k = "params" THEN params ELSE metadata],
             Plus(Plus(ShortText,
                       IF "message" \in DOMAIN params
                       THEN SignalText(params["message"].signal) ELSE NoText),
                  BulkText(metadata["attached"])))

\* recv() on a connection the peer closed without sending: b""
NoBytes == [z |-> FALSE, json |-> "invalid", doc |-> EmptyDict, text |-> 0, n |-> 0]

\* Mutant of Recv: recv is called again until the peer has nothing more to
\* send, so that every byte written is read.
Recv_All(wire) == wire

\* server.py:119 / 264  recv(1024) of the bytes written: all of them when they
\* fit, else the first 1024, which are neither a complete zlib stream nor a
\* complete JSON text
Recv(wire) ==
    IF wire.n <= BUFSIZE THEN wire
    ELSE [z |-> FALSE, json |-> "invalid", doc |-> EmptyDict, text |-> wire.text, n |-> BUFSIZE]

\* Mutant of DecodeOk: bytes that are not a zlib stream are parsed as they are.
DecodeOk_RawFallback(wire) == wire.json = "object"

\* server.py:121 / 265  json.loads(zlib.decompress(compressed_data).decode()):
\* zlib.error unless the bytes are a zlib stream, JSONDecodeError unless the
\* text is JSON.
DecodeOk(wire) == wire.z /\ wire.json = "object"

\* server.py:121 / 265  the document json.loads returns
Decode(wire) == wire.doc

\* server.py:121-127: the decode succeeds and data.get("params") is a dict
\* (params.get on None raises AttributeError, caught like a decode error).
ServerDecodeOk(wire) == DecodeOk(wire) /\ "params" \in DOMAIN Decode(wire)

\* ------------------------------------------------------------ the registry
\* self.signals: signal name -> (function, function_params); the model keeps
\* function_params.  PING is the spec's example handler; two reserved names are
\* registered as well, which the constructor does not forbid.
Registry ==
    [s \in {"PING", FETCH_SOCKET_METADATA, SUCCESS_SIGNAL_PROCESSED} |->
        IF s = "PING" THEN [a |-> 1, b |-> 2] ELSE EmptyDict]

\* Mutant of HandlerKwargs: the inbound params are passed over the defaults
\* without being filtered (function(**{**function_params, **params})).
HandlerKwargs_Unfiltered(function_params, params) == Update(function_params, params)

\* server.py:159  {k: params.get(k, v) for k, v in function_params.items()}
HandlerKwargs(function_params, params) ==
    [k \in DOMAIN function_params |-> Get(params, k, function_params[k])]

\* The text of a reply's "message": the fixed words, and the value the
\* f-string formats into them.
Message(text, signal, not_met) == [text |-> text, signal |-> signal, not_met |-> not_met]

\* server.py:135, 148, 155, 164, 171  the request_id argument of every _send
\* call: params.get("request_id")
ReplyRequestId(params) == Get(params, K_RID, NoneId)

\* server.py:126-129  params.get("__socket_metadata", {}).get("instance_id", "<UNKNOWN>") == INSTANCE_ID
IsSelfOrigin(params) ==
    Get(Get(params, K_META, EmptyDict), "instance_id", UNKNOWN) = INSTANCE_ID

\* Mutant of RequirementsMet: only the keys the server requires are compared.
RequirementsMet_ServerKeys(params, srv_requires) ==
    LET received == Get(params, K_REQ, EmptyDict)
    IN  \A k \in DOMAIN srv_requires : k \in DOMAIN received /\ received[k] = srv_requires[k]

\* server.py:137  params.get("__socket_requires", {}) == self.requires
RequirementsMet(params, srv_requires) == Get(params, K_REQ, EmptyDict) = srv_requires

\* server.py:138-140  dict_compare(params.get("__socket_requires", {}), self.requires)[2]
NotMet(params, srv_requires) == dict_compare(Get(params, K_REQ, EmptyDict), srv_requires)[3]

\* server.py:157  signal in self.signals
Registered(signal) == signal \in DOMAIN Registry

NoCall == [signal |-> NoSignal, kwargs |-> EmptyDict, result |-> "none"]

\* server.py:130-136  the branch "signal from self"
IgnoredBranch(signal, params) ==
    [outcome |-> "SelfIgnored", call |-> NoCall,
     signal |-> ERROR_SIGNAL_IGNORED,
     params |-> [message |-> Message("Ignoring signal from self", NoSignal, EmptyDict)],
     request_id |-> ReplyRequestId(params)]

\* server.py:138-149  the branch "requirements not met"
MismatchBranch(params, srv_requires) ==
    [outcome |-> "RequirementsMismatch", call |-> NoCall,
     signal |-> ERROR_REQUIREMENTS_MISMATCH,
     params |-> [message |-> Message("Requirements Mismatch", NoSignal,
                                     NotMet(params, srv_requires))],
     request_id |-> ReplyRequestId(params)]

\* server.py:151-156  the branch FETCH_SOCKET_METADATA: _send without params
\* (the default {} of _send)
MetadataBranch(signal, params) ==
    [outcome |-> "MetadataHandshake", call |-> NoCall,
     signal |-> SUCCESS_SIGNAL_PROCESSED,
     params |-> EmptyDict,
     request_id |-> ReplyRequestId(params)]

\* server.py:158-165  the branch of a registered signal: the handler call, then
\* the _send that follows it
DispatchedBranch(signal, params) ==
    [outcome |-> "SignalDispatched",
     call |-> [signal |-> signal, kwargs |-> HandlerKwargs(Registry[signal], params),
               result |-> "running"],
     signal |-> SUCCESS_SIGNAL_PROCESSED,
     params |-> [message |-> Message("processed successfully", signal, EmptyDict)],
     request_id |-> ReplyRequestId(params)]

\* Mutant of NotFoundBranch: an unknown signal is acknowledged as processed.
NotFoundBranch_Success(signal, params) ==
    [outcome |-> "SignalNotFound", call |-> NoCall,
     signal |-> SUCCESS_SIGNAL_PROCESSED,
     params |-> [message |-> Message("not found", signal, EmptyDict)],
     request_id |-> ReplyRequestId(params)]

\* server.py:166-173  the else branch
NotFoundBranch(signal, params) ==
    [outcome |-> "SignalNotFound", call |-> NoCall,
     signal |-> ERROR_SIGNAL_NOT_FOUND,
     params |-> [message |-> Message("not found", signal, EmptyDict)],
     request_id |-> ReplyRequestId(params)]

\* Mutant of Dispatch: the registry is looked up before the signal is compared
\* with FETCH_SOCKET_METADATA.
Dispatch_RegistryFirst(signal, params, srv_requires) ==
    IF IsSelfOrigin(params) THEN IgnoredBranch(signal, params)
    ELSE IF ~RequirementsMet(params, srv_requires) THEN MismatchBranch(params, srv_requires)
    ELSE IF Registered(signal) THEN DispatchedBranch(signal, params)
    ELSE IF signal = FETCH_SOCKET_METADATA THEN MetadataBranch(signal, params)
    ELSE NotFoundBranch(signal, params)

\* Mutant of Dispatch: the requirements are checked before the self-origin filter.
Dispatch_RequirementsFirst(signal, params, srv_requires) ==
    IF ~RequirementsMet(params, srv_requires) THEN MismatchBranch(params, srv_requires)
    ELSE IF IsSelfOrigin(params) THEN IgnoredBranch(signal, params)
    ELSE IF signal = FETCH_SOCKET_METADATA THEN MetadataBranch(signal, params)
    ELSE IF Registered(signal) THEN DispatchedBranch(signal, params)
    ELSE NotFoundBranch(signal, params)

\* server.py:126-173  the if/elif chain of handle_client for a decoded message:
\* the branch taken, the handler call it makes (if any) and the arguments of
\* its _send call.
Dispatch(signal, params, srv_requires) ==
    IF IsSelfOrigin(params) THEN IgnoredBranch(signal, params)
    ELSE IF ~RequirementsMet(params, srv_requires) THEN MismatchBranch(params, srv_requires)
    ELSE IF signal = FETCH_SOCKET_METADATA THEN MetadataBranch(signal, params)
    ELSE IF Registered(signal) THEN DispatchedBranch(signal, params)
    ELSE NotFoundBranch(signal, params)

\* ----------------------------------------------------- metadata providers
\* The mapping provider p returns.  Both providers return the key "stats", so
\* that the order of the merge shows.
ProviderResult(p) == IF p = 1 THEN [stats |-> 1, one |-> 1] ELSE [stats |-> p, two |-> p]

\* Mutant of Attached: a key that is already in the mapping keeps its value
\* (the results are merged with setdefault instead of update).
RECURSIVE Attached_FirstWins(_)
Attached_FirstWins(funcs) ==
    IF funcs = <<>> THEN EmptyDict
    ELSE Update(ProviderResult(funcs[Len(funcs)]),
                Attached_FirstWins(SubSeq(funcs, 1, Len(funcs) - 1)))

\* Mutant of Attached: each provider's result replaces the mapping instead of
\* being merged into it.
Attached_LastOnly(funcs) ==
    IF funcs = <<>> THEN EmptyDict ELSE ProviderResult(funcs[Len(funcs)])

\* server.py:101-103  metadata["attached"] = {}; for func in ...: .update(func())
RECURSIVE Attached(_)
Attached(funcs) ==
    IF funcs = <<>> THEN EmptyDict
    ELSE Update(Attached(SubSeq(funcs, 1, Len(funcs) - 1)), ProviderResult(funcs[Len(funcs)]))

\* server.py:90-104  SocketServer._get_metadata
get_metadata(funcs, request_id, uuid) ==
    LET metadata == generate_metadata(INSTANCE_ID, request_id, uuid)
    IN  [k \in (DOMAIN metadata) \cup {"attached"} |->
            IF k = "attached" THEN Attached(funcs) ELSE metadata[k]]

\* ------------------------------------------------------------------- state
VARIABLES
    port,            \* SocketServer.port
    listener,        \* the thread running SocketServer.receive: "unbuilt" (the constructor
                     \* has not run), "failed" (it raised), "starting", "listening", "dead"
    requires,        \* SocketServer.requires
    extra_metadata,  \* SocketServer._extra_metadata: the providers, in registration order
    call,            \* per send call: its arguments and the process that makes it
    heap,            \* the dicts passed as params: heap[0] is the default of send, heap[c] is caller c's
    cpc,             \* per send call: the line its thread is at
    rpc,             \* per send call: the detached receiver thread (wait_for_response false)
    ret,             \* per send call: what send returned to its caller
    creq,            \* per send call: the request_id generate_metadata gave it (line 312)
    sock,            \* per send call: the client's socket s
    c2s,             \* per connection: the bytes the client has sent
    s2c,             \* per connection: the bytes the server has sent
    conn,            \* per connection, server side: "none", "pending", "open", "closed"
    wpc,             \* per connection: where its worker thread (handle_client) is
    wrk,             \* per connection: the branch the worker took and its pending _send call
    exc,             \* per connection: the exception that left the worker's try block
    hcalls,          \* per connection: the handler calls its worker made, in order
    pcalls           \* per connection: the providers its worker invoked, in order

vars == <<port, listener, requires, extra_metadata, call, heap, cpc, rpc, ret, creq,
          sock, c2s, s2c, conn, wpc, wrk, exc, hcalls, pcalls>>

srvVars == <<port, listener, requires, extra_metadata>>
cliVars == <<call, heap, cpc, rpc, ret, creq, sock, c2s>>
wrkVars == <<s2c, conn, wpc, wrk, exc, hcalls, pcalls>>

\* --------------------------------------------------------------- scenarios
\* server.py:66, 247  port: int = 50007
DefaultPort == 50007
Req110 == [version |-> "1.1.0"]
Req100 == [version |-> "1.0.0"]
ReqExtra == [k \in {"version", "extra"} |-> IF k = "version" THEN "1.1.0" ELSE "x"]

\* server.py:74  the range of ports the constructor accepts
MinPort == 49152
MaxPort == 65535
\* ports a hosting application passes to the constructor
Ports == {MinPort - 1, MinPort, MaxPort, MaxPort + 1}

\* requirements descriptors a server is configured with
ServerRequires == {EmptyDict, Req110}
\* requirements descriptors a client is configured with
ClientRequires == {EmptyDict, Req110, Req100, ReqExtra}
\* a dict that an earlier send, with other requirements, has already stamped
UsedParams ==
    [k \in {K_META, K_REQ, "kept"} |->
        IF k = K_META THEN generate_metadata(OTHER_INSTANCE, NoneId, ServerUuid(1))
        ELSE IF k = K_REQ THEN ReqExtra ELSE 1]

\* signal names a caller sends
SignalNames == {"PING", "NOPE", FETCH_SOCKET_METADATA, SUCCESS_SIGNAL_PROCESSED}
\* the dicts a caller passes as params
UserParams == {EmptyDict, [a |-> 5, c |-> 99], [request_id |-> 42], UsedParams}

Doc(signal, params) == ClientEncode(signal, params).doc
\* a short message written by a peer that is not SocketClient
Written(z, json, doc) ==
    [z |-> z, json |-> json, doc |-> doc, text |-> ShortText.chars,
     n |-> IF z THEN ShortText.deflated ELSE ShortText.chars]
\* what a peer that is not SocketClient may write on the connection
RawMessages ==
    { Written(FALSE, "invalid", EmptyDict),
      Written(TRUE,  "invalid", EmptyDict),
      Written(FALSE, "object",  Doc("PING", EmptyDict)),
      Written(TRUE,  "object",  [signal |-> "PING"]),
      Written(TRUE,  "object",  [params |-> EmptyDict]),
      Written(TRUE,  "object",  Doc("PING", EmptyDict)),
      Written(TRUE,  "object",  Doc("PING", [a |-> 5])),
      Written(TRUE,  "object",  Doc(FETCH_SOCKET_METADATA, EmptyDict)),
      Written(TRUE,  "object",
              Doc("NOPE", [k \in {K_META} |-> [instance_id |-> INSTANCE_ID]])) }

Off == [kind |-> "off", inst |-> UNKNOWN, signal |-> NoSignal, requires |-> EmptyDict,
        obj |-> 0, wait |-> TRUE, raw |-> NoBytes, to |-> "server"]

\* a call of SocketClient.send
SendCalls(c) ==
    [kind : {"client"}, inst : {INSTANCE_ID, OTHER_INSTANCE}, signal : SignalNames,
     requires : ClientRequires, obj : {0, c}, wait : BOOLEAN, raw : {NoBytes},
     to : {"server"}]

\* a peer that writes bytes of its own
RawPeers ==
    [kind : {"raw"}, inst : {UNKNOWN}, signal : {NoSignal}, requires : {EmptyDict},
     obj : {0}, wait : {TRUE}, raw : RawMessages, to : {"server"}]

\* calls of SocketClient.send with short and long messages, to this server or
\* to a port that another program holds
WireCalls ==
    [kind : {"client"}, inst : {OTHER_INSTANCE},
     signal : {"PING", LongSignal, FETCH_SOCKET_METADATA},
     requires : {Req110}, obj : {1}, wait : BOOLEAN, raw : {NoBytes},
     to : {"server", "foreign"}]
\* the dicts such a caller passes as params
WireParams == {EmptyDict, [bulk |-> RandomBulk]}
\* what a program that is not this server answers: nothing, garbage, a reply
\* that is not compressed, the reply of a SocketServer of another process, and
\* one that does not fit in one read
ForeignReplies ==
    LET metadata == [k \in {"instance_id", "name", "timestamp", "request_id", "attached"} |->
                        IF k = "attached" THEN EmptyDict
                        ELSE generate_metadata(OTHER_INSTANCE, NoneId, ServerUuid(1))[k]]
        reply == ServerEncode(SUCCESS_SIGNAL_PROCESSED, EmptyDict, metadata)
    IN  { NoBytes,
          Written(FALSE, "invalid", EmptyDict),
          [reply EXCEPT !.z = FALSE, !.n = reply.text],
          reply,
          [reply EXCEPT !.n = BUFSIZE + 1] }

NoWork == [outcome |-> "none", call |-> NoCall,
           signal |-> NoSignal, params |-> EmptyDict, request_id |-> NoneId]
NoRet == [state |-> "pending", why |-> "", doc |-> EmptyDict]
\* send returns None; why: the except clause (or the return None) it passed
RetNone(why) == [state |-> "none", why |-> why, doc |-> EmptyDict]
Unsent == [sent |-> FALSE, wire |-> NoBytes]
AllProviders == [i \in 1 .. MaxProviders |-> i]

InitRest ==
    /\ cpc = [c \in Clients |-> IF call[c].kind = "client" THEN "l312"
                                ELSE IF call[c].kind = "raw" THEN "l318" ELSE "off"]
    /\ rpc = [c \in Clients |-> "none"]
    /\ ret = [c \in Clients |-> NoRet]
    /\ creq = [c \in Clients |-> NoneId]
    /\ sock = [c \in Clients |-> IF call[c].kind = "raw" THEN "open" ELSE "none"]
    /\ c2s = [c \in Clients |-> Unsent]
    /\ s2c = [c \in Clients |-> Unsent]
    /\ conn = [c \in Clients |-> "none"]
    /\ wpc = [c \in Clients |-> "none"]
    /\ wrk = [c \in Clients |-> NoWork]
    /\ exc = [c \in Clients |-> "none"]
    /\ hcalls = [c \in Clients |-> <<>>]
    /\ pcalls = [c \in Clients |-> <<>>]

\* One peer, every kind of message, against a server that was just constructed.
InitOne ==
    /\ port = DefaultPort
    /\ listener = "starting"
    /\ requires \in ServerRequires
    /\ extra_metadata = <<>>
    /\ \E k \in SendCalls(1) \cup RawPeers : call = [c \in Clients |-> IF c = 1 THEN k ELSE Off]
    /\ \E u \in UserParams :
          /\ call[1].obj = 0 => u = EmptyDict
          /\ heap = [o \in 0 .. NClients |-> IF o = 1 THEN u ELSE EmptyDict]
    /\ InitRest

\* Every client sends PING at the same time to a server that is up, each from
\* a thread of another process; either every call passes a dict of its own, or
\* calls 1 and 2 omit params (and so share the default dict).
InitMany ==
    /\ port = DefaultPort
    /\ listener = "listening"
    /\ requires = Req110
    /\ extra_metadata = AllProviders
    /\ \E k \in {0, 2} :
          call = [c \in Clients |->
                    [kind |-> "client", inst |-> OTHER_INSTANCE, signal |-> "PING",
                     requires |-> Req110, obj |-> IF c <= k THEN 0 ELSE c,
                     wait |-> TRUE, raw |-> NoBytes, to |-> "server"]]
    /\ heap = [o \in 0 .. NClients |-> EmptyDict]
    /\ InitRest

\* One peer that is anything (a SocketClient with a short or a long message,
\* talking to this server or to another program that holds the port; or a peer
\* that writes bytes of its own) next to one SocketClient that sends PING; the
\* server is still to be constructed, with any port.
InitWire ==
    /\ port \in Ports
    /\ listener = "unbuilt"
    /\ requires = Req110
    /\ extra_metadata = <<>>
    /\ \E k \in WireCalls \cup RawPeers :
          call = [c \in Clients |->
                    IF c = 1 THEN k
                    ELSE IF c = 2
                         THEN [kind |-> "client", inst |-> OTHER_INSTANCE, signal |-> "PING",
                               requires |-> Req110, obj |-> 2, wait |-> TRUE,
                               raw |-> NoBytes, to |-> "server"]
                         ELSE Off]
    /\ \E u \in WireParams :
          /\ call[1].kind = "raw" => u = EmptyDict
          /\ heap = [o \in 0 .. NClients |-> IF o = 1 THEN u ELSE EmptyDict]
    /\ InitRest

\* -------------------------------------------------------------- constructor
\* Mutant of PortInRange: the upper end of the range is not checked.
PortInRange_NoUpper(p) == ~(p < MinPort)

\* server.py:74  the negation of: port < 49152 or port > 65535
PortInRange(p) == ~(p < MinPort \/ p > MaxPort)

\* server.py:62-79  SocketServer.__init__: ValueError for a port out of range,
\* before _extra_metadata is set and the listener thread started; else the
\* thread running receive is started
SocketServer_init ==
    /\ listener = "unbuilt"
    /\ IF PortInRange(port)
       THEN /\ extra_metadata' = <<>>
            /\ listener' = "starting"
       ELSE /\ listener' = "failed"
            /\ UNCHANGED extra_metadata
    /\ UNCHANGED <<port, requires>>
    /\ UNCHANGED cliVars
    /\ UNCHANGED wrkVars

\* ---------------------------------------------------------------- listener
\* server.py:213-216  bind and listen succeed
ListenerBind ==
    /\ listener = "starting"
    /\ listener' = "listening"
    /\ UNCHANGED <<port, requires, extra_metadata>>
    /\ UNCHANGED cliVars
    /\ UNCHANGED wrkVars

\* Mutant of ListenerBindFail: bind is called in the constructor, outside any
\* try block, so its exception reaches the constructing code.
ListenerBindFail_Raises ==
    /\ listener = "starting"
    /\ listener' = "failed"
    /\ UNCHANGED <<port, requires, extra_metadata>>
    /\ UNCHANGED cliVars
    /\ UNCHANGED wrkVars

\* server.py:215, 223-224  bind raises (the port is taken): logged, the thread ends
ListenerBindFail ==
    /\ listener = "starting"
    /\ listener' = "dead"
    /\ UNCHANGED <<port, requires, extra_metadata>>
    /\ UNCHANGED cliVars
    /\ UNCHANGED wrkVars

\* server.py:218, 223-224  accept raises: logged, the loop and the thread end
AcceptFail ==
    /\ listener = "listening"
    /\ listener' = "dead"
    /\ UNCHANGED <<port, requires, extra_metadata>>
    /\ UNCHANGED cliVars
    /\ UNCHANGED wrkVars

\* Mutant of Accept: the listener thread runs handle_client itself instead of
\* starting a thread for it, so it is back in accept only when the worker ended.
Accept_Inline(c) ==
    /\ listener = "listening"
    /\ conn[c] = "pending"
    /\ \A d \in Clients : wpc[d] \in {"none", "done"}
    /\ conn' = [conn EXCEPT ![c] = "open"]
    /\ wpc' = [wpc EXCEPT ![c] = "recv"]
    /\ UNCHANGED <<s2c, wrk, exc, hcalls, pcalls>>
    /\ UNCHANGED srvVars
    /\ UNCHANGED cliVars

\* server.py:218-222  accept returns a connection; a worker thread is started
Accept(c) ==
    /\ listener = "listening"
    /\ conn[c] = "pending"
    /\ conn' = [conn EXCEPT ![c] = "open"]
    /\ wpc' = [wpc EXCEPT ![c] = "recv"]
    /\ UNCHANGED <<s2c, wrk, exc, hcalls, pcalls>>
    /\ UNCHANGED srvVars
    /\ UNCHANGED cliVars

\* server.py:81-88  attach_metadata, called by the hosting application
attach_metadata ==
    /\ listener \notin {"unbuilt", "failed"}
    /\ Len(extra_metadata) < MaxProviders
    /\ extra_metadata' = Append(extra_metadata, Len(extra_metadata) + 1)
    /\ UNCHANGED <<port, listener, requires>>
    /\ UNCHANGED cliVars
    /\ UNCHANGED wrkVars

\* ------------------------------------------------------------------ worker
\* The peer's end of connection c is closed.
PeerClosed(c) == sock[c] = "closed"

\* server.py:119  conn.recv(1024): the bytes the peer sent, b"" once it closed
Received(c) == IF c2s[c].sent THEN Recv(c2s[c].wire) ELSE NoBytes

\* Mutant of Finish: conn.close() stands at the end of the try block instead of
\* in a finally clause, so it is skipped when an exception left the block.
Finish_NoFinally(c, e) ==
    /\ exc' = [exc EXCEPT ![c] = e]
    /\ conn' = [conn EXCEPT ![c] = IF e = "none" THEN "closed" ELSE @]
    /\ wpc' = [wpc EXCEPT ![c] = "done"]

\* server.py:175-178  the try block of handle_client is left with exception e
\* ("none": it ran to its end); the exception is logged, conn.close() runs in
\* the finally clause, the worker thread ends
Finish(c, e) ==
    /\ exc' = [exc EXCEPT ![c] = e]
    /\ conn' = [conn EXCEPT ![c] = "closed"]
    /\ wpc' = [wpc EXCEPT ![c] = "done"]

\* server.py:119-173  recv returns; the message is decoded and the branch taken.
\* A decode failure leaves the try block; a registered signal enters its handler;
\* every other branch goes on to its _send call.
WorkerRecv(c) ==
    /\ wpc[c] = "recv"
    /\ c2s[c].sent \/ PeerClosed(c)
    /\ LET data == Received(c)
           d == Dispatch(Get(Decode(data), "signal", NoSignal), Decode(data)["params"], requires)
       IN  IF ~ServerDecodeOk(data)
           THEN /\ Finish(c, "decode")
                /\ UNCHANGED <<wrk, hcalls>>
           ELSE /\ wrk' = [wrk EXCEPT ![c] = d]
                /\ IF d.outcome = "SignalDispatched"
                   THEN /\ hcalls' = [hcalls EXCEPT ![c] = Append(@, d.call)]
                        /\ wpc' = [wpc EXCEPT ![c] = "handler"]
                   ELSE /\ wpc' = [wpc EXCEPT ![c] = "send"]
                        /\ UNCHANGED hcalls
                /\ UNCHANGED <<exc, conn>>
    /\ UNCHANGED <<s2c, pcalls>>
    /\ UNCHANGED srvVars
    /\ UNCHANGED cliVars

\* server.py:159  the handler returns
HandlerReturn(c) ==
    /\ wpc[c] = "handler"
    /\ wpc' = [wpc EXCEPT ![c] = "send"]
    /\ hcalls' = [hcalls EXCEPT ![c][Len(hcalls[c])].result = "returned"]
    /\ UNCHANGED <<s2c, conn, wrk, exc, pcalls>>
    /\ UNCHANGED srvVars
    /\ UNCHANGED cliVars

\* Mutant of HandlerRaise: the exception is swallowed around the handler call
\* and the worker goes on to its _send.
HandlerRaise_GoesOn(c) ==
    /\ wpc[c] = "handler"
    /\ hcalls' = [hcalls EXCEPT ![c][Len(hcalls[c])].result = "raised"]
    /\ wpc' = [wpc EXCEPT ![c] = "send"]
    /\ UNCHANGED <<s2c, conn, wrk, exc, pcalls>>
    /\ UNCHANGED srvVars
    /\ UNCHANGED cliVars

\* Mutant of HandlerRaise: the exception is not caught in the worker and takes
\* the listener down with it.
HandlerRaise_KillsListener(c) ==
    /\ wpc[c] = "handler"
    /\ hcalls' = [hcalls EXCEPT ![c][Len(hcalls[c])].result = "raised"]
    /\ Finish(c, "handler")
    /\ listener' = "dead"
    /\ UNCHANGED <<s2c, wrk, pcalls>>
    /\ UNCHANGED <<port, requires, extra_metadata>>
    /\ UNCHANGED cliVars

\* server.py:159, 175-178  the handler raises: caught and logged, nothing sent
HandlerRaise(c) ==
    /\ wpc[c] = "handler"
    /\ hcalls' = [hcalls EXCEPT ![c][Len(hcalls[c])].result = "raised"]
    /\ Finish(c, "handler")
    /\ UNCHANGED <<s2c, wrk, pcalls>>
    /\ UNCHANGED srvVars
    /\ UNCHANGED cliVars

\* Mutant of WorkerSend: the listener thread was handed a copy of the provider
\* list when the constructor started it, so a worker never sees a provider
\* attached later.
WorkerSend_Snapshot(c) ==
    /\ wpc[c] = "send"
    /\ LET metadata == get_metadata(<<>>, wrk[c].request_id, ServerUuid(c))
       IN  s2c' = [s2c EXCEPT ![c] =
                      [sent |-> TRUE, wire |-> ServerEncode(wrk[c].signal, wrk[c].params, metadata)]]
    /\ UNCHANGED pcalls
    /\ Finish(c, "none")
    /\ UNCHANGED <<wrk, hcalls>>
    /\ UNCHANGED srvVars
    /\ UNCHANGED cliVars

\* server.py:180-203, 174-178  _send: the metadata is built (every provider
\* called), the reply encoded and written; then the connection is closed
WorkerSend(c) ==
    /\ wpc[c] = "send"
    /\ LET metadata == get_metadata(extra_metadata, wrk[c].request_id, ServerUuid(c))
       IN  s2c' = [s2c EXCEPT ![c] =
                      [sent |-> TRUE, wire |-> ServerEncode(wrk[c].signal, wrk[c].params, metadata)]]
    /\ pcalls' = [pcalls EXCEPT ![c] = @ \o extra_metadata]
    /\ Finish(c, "none")
    /\ UNCHANGED <<wrk, hcalls>>
    /\ UNCHANGED srvVars
    /\ UNCHANGED cliVars

\* Mutant of ProviderRaise: _get_metadata catches the provider's exception and
\* returns the bare metadata, so the reply is written all the same.
ProviderRaise_Replies(c) ==
    /\ wpc[c] = "send"
    /\ \E n \in 1 .. Len(extra_metadata) :
          pcalls' = [pcalls EXCEPT ![c] = @ \o SubSeq(extra_metadata, 1, n)]
    /\ LET metadata == get_metadata(<<>>, wrk[c].request_id, ServerUuid(c))
       IN  s2c' = [s2c EXCEPT ![c] =
                      [sent |-> TRUE, wire |-> ServerEncode(wrk[c].signal, wrk[c].params, metadata)]]
    /\ Finish(c, "provider")
    /\ UNCHANGED <<wrk, hcalls>>
    /\ UNCHANGED srvVars
    /\ UNCHANGED cliVars

\* server.py:103, 175-178  provider n raises inside _get_metadata: nothing is sent
ProviderRaise(c) ==
    /\ wpc[c] = "send"
    /\ \E n \in 1 .. Len(extra_metadata) :
          pcalls' = [pcalls EXCEPT ![c] = @ \o SubSeq(extra_metadata, 1, n)]
    /\ Finish(c, "provider")
    /\ UNCHANGED <<s2c, wrk, hcalls>>
    /\ UNCHANGED srvVars
    /\ UNCHANGED cliVars

\* Mutant of SendFail: the exception of sendall ends the worker with the
\* connection left open.
SendFail_LeavesOpen(c) ==
    /\ wpc[c] = "send"
    /\ PeerClosed(c)
    /\ pcalls' = [pcalls EXCEPT ![c] = @ \o extra_metadata]
    /\ exc' = [exc EXCEPT ![c] = "send"]
    /\ wpc' = [wpc EXCEPT ![c] = "done"]
    /\ UNCHANGED <<s2c, conn, wrk, hcalls>>
    /\ UNCHANGED srvVars
    /\ UNCHANGED cliVars

\* server.py:203, 175-178  sendall raises because the peer is gone
SendFail(c) ==
    /\ wpc[c] = "send"
    /\ PeerClosed(c)
    /\ pcalls' = [pcalls EXCEPT ![c] = @ \o extra_metadata]
    /\ Finish(c, "send")
    /\ UNCHANGED <<s2c, wrk, hcalls>>
    /\ UNCHANGED srvVars
    /\ UNCHANGED cliVars

\* ------------------------------------------------------------------ client
\* Mutant of ClientStamp: the two keys are written with setdefault, so a value
\* that is already in the dict stays.
ClientStamp_SetDefault(c) ==
    /\ cpc[c] = "l312"
    /\ LET o == call[c].obj
           metadata == generate_metadata(call[c].inst, NoneId, ClientUuid(c))
       IN  heap' = [heap EXCEPT ![o] =
                       Update([k \in {K_META, K_REQ} |->
                                  IF k = K_META THEN metadata ELSE call[c].requires], @)]
    /\ creq' = [creq EXCEPT ![c] = ClientUuid(c)]
    /\ sock' = [sock EXCEPT ![c] = "open"]
    /\ cpc' = [cpc EXCEPT ![c] = "l318"]
    /\ UNCHANGED <<call, rpc, ret, c2s>>
    /\ UNCHANGED srvVars
    /\ UNCHANGED wrkVars

\* server.py:312-315  the metadata and the requirements are written into the
\* dict the caller passed (the shared default dict when params is omitted); the
\* socket is created
ClientStamp(c) ==
    /\ cpc[c] = "l312"
    /\ LET o == call[c].obj
           metadata == generate_metadata(call[c].inst, NoneId, ClientUuid(c))
       IN  heap' = [heap EXCEPT ![o] = Put(Put(@, K_META, metadata), K_REQ, call[c].requires)]
    /\ creq' = [creq EXCEPT ![c] = ClientUuid(c)]
    /\ sock' = [sock EXCEPT ![c] = "open"]
    /\ cpc' = [cpc EXCEPT ![c] = "l318"]
    /\ UNCHANGED <<call, rpc, ret, c2s>>
    /\ UNCHANGED srvVars
    /\ UNCHANGED wrkVars

\* server.py:318  connect succeeds: the connection waits in the listener's queue
ClientConnect(c) ==
    /\ cpc[c] = "l318"
    /\ call[c].to = "server"
    /\ listener = "listening"
    /\ conn' = [conn EXCEPT ![c] = "pending"]
    /\ cpc' = [cpc EXCEPT ![c] = "l320"]
    /\ UNCHANGED <<call, heap, rpc, ret, creq, sock, c2s>>
    /\ UNCHANGED <<s2c, wpc, wrk, exc, hcalls, pcalls>>
    /\ UNCHANGED srvVars

\* server.py:318  connect succeeds at a port that a program other than this
\* server holds
ClientConnectForeign(c) ==
    /\ cpc[c] = "l318"
    /\ call[c].to = "foreign"
    /\ cpc' = [cpc EXCEPT ![c] = "l320"]
    /\ UNCHANGED <<call, heap, rpc, ret, creq, sock, c2s>>
    /\ UNCHANGED srvVars
    /\ UNCHANGED wrkVars

\* The program at the other end reads the request, writes its answer and
\* closes.
ForeignReply(c) ==
    /\ call[c].to = "foreign"
    /\ c2s[c].sent
    /\ ~s2c[c].sent
    /\ \E w \in ForeignReplies : s2c' = [s2c EXCEPT ![c] = [sent |-> TRUE, wire |-> w]]
    /\ UNCHANGED <<conn, wpc, wrk, exc, hcalls, pcalls>>
    /\ UNCHANGED srvVars
    /\ UNCHANGED cliVars

\* server.py:318, 333-335  nothing listens: ConnectionRefusedError is caught,
\* the socket closed, None returned
ClientRefused(c) ==
    /\ cpc[c] = "l318"
    /\ call[c].to = "server"
    /\ listener # "listening"
    /\ sock' = [sock EXCEPT ![c] = "closed"]
    /\ ret' = [ret EXCEPT ![c] = RetNone("refused")]
    /\ cpc' = [cpc EXCEPT ![c] = "done"]
    /\ UNCHANGED <<call, heap, rpc, creq, c2s>>
    /\ UNCHANGED srvVars
    /\ UNCHANGED wrkVars

\* Mutant of ClientSendall: wait_for_response is not looked at, every call
\* goes on to _receive_data in the caller's thread.
ClientSendall_AlwaysWaits(c) ==
    /\ cpc[c] = "l320"
    /\ call[c].kind = "client"
    /\ c2s' = [c2s EXCEPT ![c] =
                  [sent |-> TRUE, wire |-> ClientEncode(call[c].signal, heap[call[c].obj])]]
    /\ cpc' = [cpc EXCEPT ![c] = "l325"]
    /\ UNCHANGED <<rpc, ret>>
    /\ UNCHANGED <<call, heap, creq, sock>>
    /\ UNCHANGED srvVars
    /\ UNCHANGED wrkVars

\* server.py:320-329  the dict is serialized as it is now and written; a
\* synchronous call goes on to _receive_data, an asynchronous one starts the
\* receiver thread and returns None
ClientSendall(c) ==
    /\ cpc[c] = "l320"
    /\ call[c].kind = "client"
    /\ c2s' = [c2s EXCEPT ![c] =
                  [sent |-> TRUE, wire |-> ClientEncode(call[c].signal, heap[call[c].obj])]]
    /\ IF call[c].wait
       THEN /\ cpc' = [cpc EXCEPT ![c] = "l325"]
            /\ UNCHANGED <<rpc, ret>>
       ELSE /\ cpc' = [cpc EXCEPT ![c] = "done"]
            /\ rpc' = [rpc EXCEPT ![c] = "l264"]
            /\ ret' = [ret EXCEPT ![c] = RetNone("detached")]
    /\ UNCHANGED <<call, heap, creq, sock>>
    /\ UNCHANGED srvVars
    /\ UNCHANGED wrkVars

\* The client's recv returns: the reply has been written, or the server closed
\* the connection, or the listener died with the connection still in its queue.
ReplyReady(c) ==
    \/ s2c[c].sent
    \/ conn[c] = "closed"
    \/ conn[c] = "pending" /\ listener = "dead"

\* server.py:264  s.recv(1024): the bytes the server sent, b"" if it closed without
Reply(c) == IF s2c[c].sent THEN Recv(s2c[c].wire) ELSE NoBytes

\* Mutant of ClientRecv: send has no except clause around _receive_data, so a
\* failure of recv or of the decode is raised to the caller of send.
ClientRecv_Propagates(c) ==
    /\ cpc[c] = "l325"
    /\ ReplyReady(c)
    /\ sock' = [sock EXCEPT ![c] = "closed"]
    /\ ret' = [ret EXCEPT ![c] =
                  IF DecodeOk(Reply(c)) THEN [state |-> "data", why |-> "", doc |-> Decode(Reply(c))]
                  ELSE [state |-> "raised", why |-> "noreply", doc |-> EmptyDict]]
    /\ cpc' = [cpc EXCEPT ![c] = "done"]
    /\ UNCHANGED <<call, heap, rpc, creq, c2s>>
    /\ UNCHANGED srvVars
    /\ UNCHANGED wrkVars

\* server.py:325, 263-269, 333-335  synchronous _receive_data: the socket is
\* closed in every case; a reply that decodes is returned, a failure of recv or
\* of the decode is caught in send, which returns None
ClientRecv(c) ==
    /\ cpc[c] = "l325"
    /\ ReplyReady(c)
    /\ sock' = [sock EXCEPT ![c] = "closed"]
    /\ ret' = [ret EXCEPT ![c] =
                  IF DecodeOk(Reply(c)) THEN [state |-> "data", why |-> "", doc |-> Decode(Reply(c))]
                  ELSE RetNone("noreply")]
    /\ cpc' = [cpc EXCEPT ![c] = "done"]
    /\ UNCHANGED <<call, heap, rpc, creq, c2s>>
    /\ UNCHANGED srvVars
    /\ UNCHANGED wrkVars

\* server.py:317-325, 330-332  socket.timeout in connect, sendall or recv:
\* logged, None returned; this except clause does not close the socket (a
\* timeout inside _receive_data has closed it in the finally of line 268)
ClientTimeout(c) ==
    /\ call[c].kind = "client"
    /\ \/ cpc[c] = "l318" /\ (listener = "listening" \/ call[c].to = "foreign")
       \/ cpc[c] = "l320"
       \/ cpc[c] = "l325"
    /\ sock' = [sock EXCEPT ![c] = IF cpc[c] = "l325" THEN "closed" ELSE @]
    /\ ret' = [ret EXCEPT ![c] = RetNone("timeout")]
    /\ cpc' = [cpc EXCEPT ![c] = "done"]
    /\ UNCHANGED <<call, heap, rpc, creq, c2s>>
    /\ UNCHANGED srvVars
    /\ UNCHANGED wrkVars

\* server.py:315, 330-332  send returned through the except clause that does
\* not close s: the socket object is unreachable, and the runtime closes it when
\* it collects it (at once, later or never, depending on the runtime)
SocketFinalized(c) ==
    /\ call[c].kind = "client"
    /\ cpc[c] = "done"
    /\ sock[c] = "open"
    /\ rpc[c] = "none"
    /\ sock' = [sock EXCEPT ![c] = "closed"]
    /\ UNCHANGED <<call, heap, cpc, rpc, ret, creq, c2s>>
    /\ UNCHANGED srvVars
    /\ UNCHANGED wrkVars

\* server.py:327, 263-269  the detached receiver: the socket is closed in every
\* case; the reply is logged, a failure (timeout, no reply, undecodable reply)
\* ends the thread with the exception
ReceiverRecv(c) ==
    /\ rpc[c] = "l264"
    /\ \/ /\ ReplyReady(c)
          /\ rpc' = [rpc EXCEPT ![c] = IF DecodeOk(Reply(c)) THEN "done" ELSE "raised"]
       \/ rpc' = [rpc EXCEPT ![c] = "raised"]
    /\ sock' = [sock EXCEPT ![c] = "closed"]
    /\ UNCHANGED <<call, heap, cpc, ret, creq, c2s>>
    /\ UNCHANGED srvVars
    /\ UNCHANGED wrkVars

\* A peer that is not SocketClient writes its bytes.
RawSend(c) ==
    /\ cpc[c] = "l320"
    /\ call[c].kind = "raw"
    /\ c2s' = [c2s EXCEPT ![c] = [sent |-> TRUE, wire |-> call[c].raw]]
    /\ cpc' = [cpc EXCEPT ![c] = "sent"]
    /\ UNCHANGED <<call, heap, rpc, ret, creq, sock>>
    /\ UNCHANGED srvVars
    /\ UNCHANGED wrkVars

\* A peer that is not SocketClient closes its end, before or after writing.
RawClose(c) ==
    /\ cpc[c] \in {"l320", "sent"}
    /\ call[c].kind = "raw"
    /\ sock' = [sock EXCEPT ![c] = "closed"]
    /\ cpc' = [cpc EXCEPT ![c] = "done"]
    /\ UNCHANGED <<call, heap, rpc, ret, creq, c2s>>
    /\ UNCHANGED srvVars
    /\ UNCHANGED wrkVars

\* ------------------------------------------------------------ specification
Next ==
    \/ ListenerBind
    \/ ListenerBindFail
    \/ AcceptFail
    \/ attach_metadata
    \/ \E c \in Clients : Accept(c)
    \/ \E c \in Clients : WorkerRecv(c)
    \/ \E c \in Clients : HandlerReturn(c)
    \/ \E c \in Clients : HandlerRaise(c)
    \/ \E c \in Clients : WorkerSend(c)
    \/ \E c \in Clients : ProviderRaise(c)
    \/ \E c \in Clients : SendFail(c)
    \/ \E c \in Clients : ClientStamp(c)
    \/ \E c \in Clients : ClientConnect(c)
    \/ \E c \in Clients : ClientRefused(c)
    \/ \E c \in Clients : ClientSendall(c)
    \/ \E c \in Clients : ClientRecv(c)
    \/ \E c \in Clients : ClientTimeout(c)
    \/ \E c \in Clients : SocketFinalized(c)
    \/ \E c \in Clients : ReceiverRecv(c)
    \/ \E c \in Clients : RawSend(c)
    \/ \E c \in Clients : RawClose(c)

\* One peer at a time, with every kind of message.
Spec == InitOne /\ [][Next]_vars

\* The steps that can be taken from InitMany: the listener is up, every provider
\* is attached and every peer is a SocketClient, so the other disjuncts of Next
\* are never enabled.
NextMany ==
    \/ AcceptFail
    \/ \E c \in Clients : Accept(c)
    \/ \E c \in Clients : WorkerRecv(c)
    \/ \E c \in Clients : HandlerReturn(c)
    \/ \E c \in Clients : HandlerRaise(c)
    \/ \E c \in Clients : WorkerSend(c)
    \/ \E c \in Clients : ProviderRaise(c)
    \/ \E c \in Clients : SendFail(c)
    \/ \E c \in Clients : ClientStamp(c)
    \/ \E c \in Clients : ClientConnect(c)
    \/ \E c \in Clients : ClientRefused(c)
    \/ \E c \in Clients : ClientSendall(c)
    \/ \E c \in Clients : ClientRecv(c)
    \/ \E c \in Clients : ClientTimeout(c)
    \/ \E c \in Clients : SocketFinalized(c)

\* Several clients sending at the same time.
SpecMany == InitMany /\ [][NextMany]_vars

\* The constructor, both kinds of peer and messages of every size.
NextWire ==
    \/ SocketServer_init
    \/ ListenerBind
    \/ ListenerBindFail
    \/ AcceptFail
    \/ \E c \in Clients : Accept(c)
    \/ \E c \in Clients : WorkerRecv(c)
    \/ \E c \in Clients : HandlerReturn(c)
    \/ \E c \in Clients : HandlerRaise(c)
    \/ \E c \in Clients : WorkerSend(c)
    \/ \E c \in Clients : SendFail(c)
    \/ \E c \in Clients : ClientStamp(c)
    \/ \E c \in Clients : ClientConnect(c)
    \/ \E c \in Clients : ClientConnectForeign(c)
    \/ \E c \in Clients : ForeignReply(c)
    \/ \E c \in Clients : ClientRefused(c)
    \/ \E c \in Clients : ClientSendall(c)
    \/ \E c \in Clients : ClientRecv(c)
    \/ \E c \in Clients : ClientTimeout(c)
    \/ \E c \in Clients : SocketFinalized(c)
    \/ \E c \in Clients : ReceiverRecv(c)
    \/ \E c \in Clients : RawSend(c)
    \/ \E c \in Clients : RawClose(c)

SpecWire == InitWire /\ [][NextWire]_vars

\* server.py:78-79, 219-222  the listener and the workers are threads of their
\* own, which the operating system goes on scheduling: a listener with a
\* connection in its queue accepts it, a worker whose read can return reads, a
\* handler that can return returns, a reply that can be written is written.
\* server.py:312-325  So is the thread that calls SocketClient.send: it goes from
\* one line to the next, and a socket it left unreachable is collected (as a
\* reference-counting runtime does).  Nothing is assumed of a peer that is not
\* SocketClient.
Fairness ==
    \A c \in Clients :
        /\ WF_vars(Accept(c))
        /\ WF_vars(WorkerRecv(c))
        /\ WF_vars(HandlerReturn(c))
        /\ WF_vars(WorkerSend(c))
        /\ WF_vars(ClientStamp(c))
        /\ WF_vars(ClientConnect(c))
        /\ WF_vars(ClientSendall(c))
        /\ WF_vars(ClientRecv(c))
        /\ WF_vars(SocketFinalized(c))

\* One peer at a time, with every kind of message, under fair scheduling of the
\* server's threads.
SpecLive == InitOne /\ [][Next]_vars /\ Fairness

\* ================================================================== claims
\* What the claims speak about, read off the state.

\* The worker of connection c decoded a message and took a branch.
Decoded(c) == wrk[c].outcome # "none"
\* The params of the message connection c carried.
InParams(c) == c2s[c].wire.doc["params"]
\* The signal of the message connection c carried.
InSignal(c) == Get(c2s[c].wire.doc, "signal", NoSignal)
\* Its requirements descriptor; a missing one counts as the empty mapping.
InRequires(c) == IF K_REQ \in DOMAIN InParams(c) THEN InParams(c)[K_REQ] ELSE EmptyDict
\* The message says it comes from the server's own process.
FromSelf(c) ==
    /\ K_META \in DOMAIN InParams(c)
    /\ "instance_id" \in DOMAIN InParams(c)[K_META]
    /\ InParams(c)[K_META].instance_id = INSTANCE_ID
\* The reply written on connection c.
Replied(c) == s2c[c].sent
ReplyDoc(c) == s2c[c].wire.doc
\* The worker of connection c has ended without an exception in _send.
SendCompleted(c) == wpc[c] = "done" /\ exc[c] \notin {"provider", "send"}
\* The only thing ever written on connection c is a reply with this signal, and
\* it has been written once the worker ended, unless _send itself failed.
RepliesOnly(c, signal) ==
    /\ Replied(c) => ReplyDoc(c)["signal"] = signal
    /\ SendCompleted(c) => Replied(c)

\* C1: a decoded message whose metadata carries the server's own instance id is
\* answered with ERROR_SIGNAL_IGNORED and no handler is invoked, whatever its
\* signal and its requirements (the reply is written unless _send itself fails:
\* a provider raises or the peer is gone).
C1_SelfOriginIgnored ==
    \A c \in Clients :
        (Decoded(c) /\ FromSelf(c)) =>
            /\ wrk[c].outcome = "SelfIgnored"
            /\ hcalls[c] = <<>>
            /\ RepliesOnly(c, "__error_signal_ignored")

\* C1 witness: a message from self that names a registered signal and carries
\* requirements the server does not have has been answered ERROR_SIGNAL_IGNORED.
C1_Witness ==
    \E c \in Clients :
        /\ Decoded(c) /\ FromSelf(c)
        /\ InSignal(c) = "PING"
        /\ InRequires(c) # requires
        /\ Replied(c) /\ ReplyDoc(c)["signal"] = "__error_signal_ignored"

\* C2: a decoded message not from self whose requirements mapping differs from
\* the server's (key added, key removed, value changed, descriptor missing) is
\* answered with ERROR_REQUIREMENTS_MISMATCH; no handler is invoked and
\* SUCCESS_SIGNAL_PROCESSED is never sent, whatever the signal.
C2_RequirementsMismatch ==
    \A c \in Clients :
        (Decoded(c) /\ ~FromSelf(c) /\ InRequires(c) # requires) =>
            /\ wrk[c].outcome = "RequirementsMismatch"
            /\ hcalls[c] = <<>>
            /\ RepliesOnly(c, "__error_requirements_mismatch")

\* C2 witness: FETCH_SOCKET_METADATA sent with the server's requirements plus
\* one more key has been answered ERROR_REQUIREMENTS_MISMATCH.
C2_Witness ==
    \E c \in Clients :
        /\ Decoded(c) /\ ~FromSelf(c)
        /\ InSignal(c) = FETCH_SOCKET_METADATA
        /\ requires = Req110 /\ InRequires(c) = ReqExtra
        /\ Replied(c) /\ ReplyDoc(c)["signal"] = "__error_requirements_mismatch"

\* The message of connection c passed the self-origin filter and the
\* requirements check.
Admitted(c) == Decoded(c) /\ ~FromSelf(c) /\ InRequires(c) = requires

\* C3: for an admitted message whose signal is registered and is not
\* FETCH_SOCKET_METADATA the handler is invoked exactly once; nothing is written
\* while it runs; the only reply is SUCCESS_SIGNAL_PROCESSED ("processed
\* successfully"), written after the handler returned normally; and a
\* synchronous client whose recv returns gets exactly that reply.
C3_RegisteredDispatch ==
    \A c \in Clients :
        (Admitted(c) /\ InSignal(c) \in DOMAIN Registry /\ InSignal(c) # FETCH_SOCKET_METADATA) =>
            /\ wrk[c].outcome = "SignalDispatched"
            /\ Len(hcalls[c]) = 1
            /\ hcalls[c][1].signal = InSignal(c)
            /\ hcalls[c][1].result = "running" <=> wpc[c] = "handler"
            /\ Replied(c) =>
                  /\ hcalls[c][1].result = "returned"
                  /\ ReplyDoc(c)["signal"] = "__success_signal_processed"
                  /\ ReplyDoc(c)["params"]["message"].text = "processed successfully"
                  /\ ReplyDoc(c)["params"]["message"].signal = InSignal(c)
            /\ (SendCompleted(c) /\ hcalls[c][1].result = "returned") => Replied(c)
            /\ (call[c].kind = "client" /\ call[c].wait /\ cpc[c] = "done"
                   /\ Replied(c) /\ ret[c].why # "timeout") =>
                  /\ ret[c].state = "data"
                  /\ ret[c].doc = ReplyDoc(c)

\* C3 witness: PING with matching requirements; the handler returned, SUCCESS was
\* written and send returned it to its caller.
C3_Witness ==
    \E c \in Clients :
        /\ Admitted(c) /\ InSignal(c) = "PING"
        /\ hcalls[c][1].result = "returned"
        /\ ret[c].state = "data"
        /\ ret[c].doc["signal"] = "__success_signal_processed"

\* C4: the keyword arguments of every handler call have exactly the keys of the
\* handler's declared defaults; each takes the inbound value when the inbound
\* params have that key and the default otherwise; no other inbound key
\* (__socket_metadata and __socket_requires included) is passed.
C4_ParameterScoping ==
    \A c \in Clients : \A i \in 1 .. Len(hcalls[c]) :
        LET kwargs == hcalls[c][i].kwargs
            defaults == Registry[hcalls[c][i].signal]
        IN  /\ DOMAIN kwargs = DOMAIN defaults
            /\ \A k \in DOMAIN defaults :
                  kwargs[k] = IF k \in DOMAIN InParams(c) THEN InParams(c)[k] ELSE defaults[k]
            /\ (DOMAIN defaults = {"a", "b"} /\ defaults["a"] = 1 /\ defaults["b"] = 2
                  /\ DOMAIN InParams(c) = {"a", "c", K_META, K_REQ}
                  /\ InParams(c)["a"] = 5 /\ InParams(c)["c"] = 99)
               => (DOMAIN kwargs = {"a", "b"} /\ kwargs["a"] = 5 /\ kwargs["b"] = 2)

\* C4 witness: the handler with defaults {a: 1, b: 2} was called for inbound
\* params {a: 5, c: 99} (plus the two keys send adds) with {a: 5, b: 2}.
C4_Witness ==
    \E c \in Clients :
        /\ Len(hcalls[c]) = 1
        /\ hcalls[c][1].signal = "PING"
        /\ {"a", "c", K_META, K_REQ} = DOMAIN InParams(c)
        /\ InParams(c)["a"] = 5 /\ InParams(c)["c"] = 99
        /\ DOMAIN hcalls[c][1].kwargs = {"a", "b"}
        /\ hcalls[c][1].kwargs["a"] = 5 /\ hcalls[c][1].kwargs["b"] = 2

\* C5: an admitted message whose signal is neither FETCH_SOCKET_METADATA nor a
\* key of the registry is answered with ERROR_SIGNAL_NOT_FOUND and no handler is
\* invoked.
C5_UnknownSignal ==
    \A c \in Clients :
        (Admitted(c) /\ InSignal(c) # FETCH_SOCKET_METADATA /\ InSignal(c) \notin DOMAIN Registry) =>
            /\ wrk[c].outcome = "SignalNotFound"
            /\ hcalls[c] = <<>>
            /\ RepliesOnly(c, "__error_signal_not_found")

\* C5 witness: the unregistered signal NOPE has been answered ERROR_SIGNAL_NOT_FOUND.
C5_Witness ==
    \E c \in Clients :
        /\ Admitted(c) /\ InSignal(c) = "NOPE"
        /\ Replied(c) /\ ReplyDoc(c)["signal"] = "__error_signal_not_found"

\* C6: an admitted FETCH_SOCKET_METADATA message is answered with
\* SUCCESS_SIGNAL_PROCESSED whose params are empty and whose metadata has
\* instance_id, name, timestamp, request_id and attached, attached holding the
\* keys of every provider registered when the reply was built; no handler of the
\* registry is invoked (not even one registered under that name).
C6_MetadataHandshake ==
    \A c \in Clients :
        (Admitted(c) /\ InSignal(c) = FETCH_SOCKET_METADATA) =>
            /\ wrk[c].outcome = "MetadataHandshake"
            /\ hcalls[c] = <<>>
            /\ RepliesOnly(c, "__success_signal_processed")
            /\ Replied(c) =>
                  /\ DOMAIN ReplyDoc(c) = {"signal", "params", K_META}
                  /\ DOMAIN ReplyDoc(c)["params"] = {}
                  /\ DOMAIN ReplyDoc(c)[K_META] =
                        {"instance_id", "name", "timestamp", "request_id", "attached"}
                  /\ ReplyDoc(c)[K_META]["instance_id"] = INSTANCE_ID
                  /\ ReplyDoc(c)[K_META]["name"] = NAME
                  /\ \A i \in 1 .. Len(pcalls[c]) :
                        DOMAIN ProviderResult(pcalls[c][i]) \subseteq DOMAIN ReplyDoc(c)[K_META]["attached"]

\* C6 witness: a handshake answered while two providers were registered; the
\* reply carries the keys of both.
C6_Witness ==
    \E c \in Clients :
        /\ Admitted(c) /\ InSignal(c) = FETCH_SOCKET_METADATA
        /\ Replied(c)
        /\ Len(pcalls[c]) = 2
        /\ {"one", "two", "stats"} \subseteq DOMAIN ReplyDoc(c)[K_META]["attached"]

\* The request_id in the metadata of the reply written on connection c.
ReplyRequestIdOf(c) == ReplyDoc(c)[K_META]["request_id"]

\* C7 (as claimed): the request_id in the metadata of every reply to a request
\* of SocketClient.send equals the request_id that send call generated.
C7_RequestIdEchoed ==
    \A c \in Clients :
        (call[c].kind = "client" /\ Replied(c)) => ReplyRequestIdOf(c) = creq[c]

\* C8 (as claimed): every synchronous client that gets a reply gets one whose
\* request_id is the one it generated, and not the one another client generated.
C8_ConcurrentCorrelation ==
    \A c \in Clients :
        ret[c].state = "data" =>
            /\ ret[c].doc[K_META]["request_id"] = creq[c]
            /\ \A d \in Clients \ {c} : ret[c].doc[K_META]["request_id"] # creq[d]

\* The request_id in the metadata of the request written on connection c.
WireRequestId(c) == c2s[c].wire.doc["params"][K_META]["request_id"]

\* C9 (as claimed): no two requests on the wire carry the same request_id, and
\* a request_id belongs to one request and its reply only.
C9_RequestIdUnique ==
    \A c, d \in Clients :
        (c # d /\ c2s[c].sent /\ c2s[d].sent) =>
            /\ WireRequestId(c) # WireRequestId(d)
            /\ Replied(d) => ReplyRequestIdOf(d) # WireRequestId(c)

\* The handler of connection c raised.
HandlerRaised(c) == Len(hcalls[c]) > 0 /\ hcalls[c][Len(hcalls[c])].result = "raised"

HasRead(c) == wpc[c] \notin {"none", "recv"}
\* What the worker of connection c read is not a message: the peer closed
\* without writing, or the bytes are not a zlib stream, or more than one read
\* holds, or the text is not a JSON object, or the object has no params.
BadBytes(c) ==
    \/ ~c2s[c].sent
    \/ ~c2s[c].wire.z
    \/ c2s[c].wire.n > 1024
    \/ c2s[c].wire.json # "object"
    \/ "params" \notin DOMAIN c2s[c].wire.doc

\* C11: when the bytes a worker read are not a message (not a zlib stream, not
\* JSON, no params), the worker takes no branch, invokes no handler, writes
\* nothing and closes the connection, and only then; the step leaves the
\* listener and every other connection as they were.
C11_ProtocolError ==
    /\ [](\A c \in Clients :
            /\ (HasRead(c) /\ BadBytes(c)) =>
                  /\ exc[c] = "decode"
                  /\ wrk[c].outcome = "none"
                  /\ hcalls[c] = <<>>
                  /\ ~Replied(c)
                  /\ wpc[c] = "done"
                  /\ conn[c] = "closed"
            /\ exc[c] = "decode" => BadBytes(c))
    /\ [][\A c \in Clients :
            (exc[c]' = "decode" /\ exc[c] # "decode") =>
                /\ listener' = listener
                /\ \A d \in Clients \ {c} :
                      <<conn[d], wpc[d], wrk[d], exc[d], s2c[d]>>' =
                          <<conn[d], wpc[d], wrk[d], exc[d], s2c[d]>>]_vars

\* C11 witness: peer 1 wrote a zlib stream whose text is not JSON; its worker
\* dropped the connection without a reply; the listener is up and can accept
\* connection 2, which arrived in the meantime.
C11_Witness ==
    /\ call[1].kind = "raw" /\ c2s[1].sent
    /\ c2s[1].wire.z /\ c2s[1].wire.json = "invalid"
    /\ exc[1] = "decode" /\ conn[1] = "closed" /\ ~Replied(1) /\ hcalls[1] = <<>>
    /\ conn[2] = "pending"
    /\ ENABLED Accept(2)

\* C12: a constructor called with a port below 49152 or above 65535 fails: the
\* listener thread is never started, nothing is ever bound and no connection is
\* ever made to the server; called with a port from 49152 to 65535 (both
\* included) it does not fail and the listener thread is started.
C12_PortValidation ==
    /\ []((port < 49152 \/ port > 65535) =>
             /\ listener \in {"unbuilt", "failed"}
             /\ \A c \in Clients : conn[c] = "none" /\ wpc[c] = "none")
    /\ []((port >= 49152 /\ port <= 65535) => listener # "failed")
    /\ [][(listener = "unbuilt" /\ listener' # "unbuilt") =>
             IF port >= 49152 /\ port <= 65535
             THEN listener' = "starting"
             ELSE listener' = "failed"]_vars

\* C12 witness: the constructor was called with port 65536 and failed; a client
\* that tried to connect afterwards was refused.
C12_Witness ==
    /\ port = 65536
    /\ listener = "failed"
    /\ ret[2].state = "none" /\ ret[2].why = "refused"

\* The message send call c serialized: its signal and the dict it passed, with
\* the two keys line 312-313 wrote into it.
SentMessage(c) ==
    [k \in {"signal", "params"} |-> IF k = "signal" THEN call[c].signal ELSE heap[call[c].obj]]

C14_CompressionThreshold ==
    \A c \in Clients :
        /\ (call[c].kind = "client" /\ c2s[c].sent) =>
              /\ c2s[c].wire.z <=> c2s[c].wire.text > 1024
              /\ "compressed" \in DOMAIN c2s[c].wire.doc["params"][K_META]
              /\ c2s[c].wire.doc["params"][K_META]["compressed"] = c2s[c].wire.z
        /\ (call[c].to = "server" /\ Replied(c)) =>
              /\ s2c[c].wire.z <=> s2c[c].wire.text > 1024
              /\ "compressed" \in DOMAIN s2c[c].wire.doc[K_META]
              /\ s2c[c].wire.doc[K_META]["compressed"] = s2c[c].wire.z

\* C14 (amended): every message written, request or reply, is compressed,
\* whatever the length of its serialized text, and its metadata has no
\* compressed flag.
C14_AlwaysCompressed ==
    \A c \in Clients :
        /\ (call[c].kind = "client" /\ c2s[c].sent) =>
              /\ c2s[c].wire.z
              /\ "compressed" \notin DOMAIN c2s[c].wire.doc["params"][K_META]
        /\ (call[c].to = "server" /\ Replied(c)) =>
              /\ s2c[c].wire.z
              /\ "compressed" \notin DOMAIN s2c[c].wire.doc[K_META]

\* C14 witness: a request and a reply of less than 1024 bytes of text and a
\* request and a reply of more have all been written compressed.
C14_Witness ==
    /\ c2s[1].sent /\ c2s[1].wire.text > 1024 /\ c2s[1].wire.z
    /\ s2c[1].sent /\ s2c[1].wire.text > 1024 /\ s2c[1].wire.z
    /\ call[1].kind = "client" /\ call[1].to = "server"
    /\ c2s[2].sent /\ c2s[2].wire.text <= 1024 /\ c2s[2].wire.z
    /\ s2c[2].sent /\ s2c[2].wire.text <= 1024 /\ s2c[2].wire.z

\* The bytes written are a serialized message that is not compressed and fits
\* in one read.
PlainMessage(wire) == ~wire.z /\ wire.json = "object" /\ wire.n <= 1024

\* C15 (as claimed): a payload that is not compressed but is a well-formed
\* serialized message is accepted by the server's decoder and by the client's:
\* the request is dispatched and replied to, the reply is returned by send.
C15_DecodeFallback ==
    \A c \in Clients :
        /\ (HasRead(c) /\ c2s[c].sent /\ PlainMessage(c2s[c].wire)
               /\ "params" \in DOMAIN c2s[c].wire.doc) =>
              /\ exc[c] # "decode"
              /\ Decoded(c)
              /\ SendCompleted(c) => Replied(c)
        /\ (call[c].wait /\ cpc[c] = "done" /\ ret[c].why # "timeout"
               /\ s2c[c].sent /\ PlainMessage(s2c[c].wire)) =>
              ret[c].state = "data"

\* C15 (amended): a payload that is not compressed is rejected by the server's
\* decoder and by the client's, also when it is a well-formed serialized
\* message (decompression is the only thing tried): the worker takes no branch,
\* invokes no handler, writes nothing and closes the connection; send returns
\* None; whatever send returns as a reply was a compressed JSON object.
C15_NoFallback ==
    \A c \in Clients :
        /\ (HasRead(c) /\ c2s[c].sent /\ ~c2s[c].wire.z) =>
              /\ exc[c] = "decode"
              /\ ~Decoded(c)
              /\ hcalls[c] = <<>>
              /\ ~Replied(c)
              /\ conn[c] = "closed"
        /\ (call[c].kind = "client" /\ call[c].wait /\ cpc[c] = "done"
               /\ s2c[c].sent /\ ~s2c[c].wire.z) =>
              /\ ret[c].state = "none"
              /\ ret[c].why \in {"noreply", "timeout"}
        /\ ret[c].state = "data" =>
              s2c[c].wire.z /\ s2c[c].wire.json = "object" /\ ret[c].doc = s2c[c].wire.doc
        /\ Decoded(c) => c2s[c].wire.z /\ c2s[c].wire.json = "object"

\* C15 witness: peer 1 wrote a well-formed PING message without compressing it;
\* the worker dropped the connection: no handler call, no reply.
C15_Witness ==
    /\ call[1].kind = "raw" /\ c2s[1].sent
    /\ PlainMessage(c2s[1].wire)
    /\ c2s[1].wire.doc["signal"] = "PING" /\ "params" \in DOMAIN c2s[1].wire.doc
    /\ exc[1] = "decode" /\ conn[1] = "closed"
    /\ hcalls[1] = <<>> /\ ~Replied(1)

\* Send call c is a synchronous call of SocketClient.send.
SyncCall(c) == call[c].kind = "client" /\ call[c].wait
\* The bytes are a reply send can decode after one read.
GoodReply(wire) == wire.z /\ wire.json = "object" /\ wire.n <= 1024

\* C16: a synchronous send never raises to its caller: it returns None when the
\* connection is refused, when connect, sendall or recv times out, when the
\* connection is closed without a reply and when the reply cannot be decoded;
\* it returns the reply when a decodable one arrives.
C16_SyncSendFailure ==
    \A c \in Clients : SyncCall(c) =>
        /\ ret[c].state \in {"pending", "none", "data"}
        /\ ret[c].state = "pending" <=> cpc[c] # "done"
        /\ ret[c].state = "none" =>
              /\ ret[c].why \in {"refused", "timeout", "noreply"}
              /\ ret[c].why = "refused" => ~c2s[c].sent /\ conn[c] = "none"
              /\ ret[c].why = "noreply" => ~(s2c[c].sent /\ GoodReply(s2c[c].wire))
        /\ ret[c].state = "data" =>
              /\ s2c[c].sent /\ GoodReply(s2c[c].wire)
              /\ ret[c].doc = s2c[c].wire.doc
        /\ cpc[c] = "done" =>
              /\ ~c2s[c].sent => ret[c].state = "none"
              /\ (conn[c] = "closed" /\ ~s2c[c].sent) => ret[c].state = "none"
              /\ (s2c[c].sent /\ ~GoodReply(s2c[c].wire)) => ret[c].state = "none"
              /\ (s2c[c].sent /\ GoodReply(s2c[c].wire) /\ ret[c].why # "timeout") =>
                    ret[c].state = "data"

\* C16 witness: call 1 was answered with bytes that do not decode and returned
\* None; call 2 was answered by the server and returned the reply.
C16_Witness ==
    /\ SyncCall(1) /\ s2c[1].sent /\ ~GoodReply(s2c[1].wire) /\ s2c[1].wire.n > 0
    /\ cpc[1] = "done" /\ ret[1].state = "none" /\ ret[1].why = "noreply"
    /\ SyncCall(2) /\ cpc[2] = "done" /\ ret[2].state = "data"

\* Send call c is an asynchronous call of SocketClient.send.
AsyncCall(c) == call[c].kind = "client" /\ ~call[c].wait

\* C17: an asynchronous send returns None and nothing else, as soon as the
\* request is written and without waiting for the reply; the reply is read by
\* the detached receiver thread, which closes the socket; a failure of connect
\* or sendall makes send return None too, and no step of the receiver (reply
\* read, timeout, connection dropped, undecodable reply) changes what send
\* returned or is raised to its caller.
C17_AsyncSend ==
    /\ [](\A c \in Clients : AsyncCall(c) =>
            /\ ret[c].state \in {"pending", "none"}
            /\ ret[c].state = "none" <=> cpc[c] = "done"
            /\ ret[c].state = "none" => ret[c].why \in {"detached", "refused", "timeout"}
            /\ cpc[c] \notin {"l325"}
            /\ ret[c].why = "detached" <=> rpc[c] # "none"
            /\ rpc[c] # "none" => c2s[c].sent
            /\ rpc[c] = "done" => s2c[c].sent /\ GoodReply(s2c[c].wire)
            /\ rpc[c] \in {"done", "raised"} => sock[c] = "closed")
    /\ [][\A c \in Clients :
            /\ (AsyncCall(c) /\ c2s[c]' # c2s[c]) =>
                  ret[c]' = [state |-> "none", why |-> "detached", doc |-> EmptyDict]
            /\ (AsyncCall(c) /\ ret[c].state = "none") => ret[c]' = ret[c] /\ cpc[c]' = cpc[c]]_vars

\* C17 witness: asynchronous call 1 returned None; later its receiver thread
\* read bytes that do not decode and ended with the exception; what send
\* returned is still None.
C17_Witness ==
    /\ AsyncCall(1)
    /\ cpc[1] = "done" /\ ret[1].state = "none" /\ ret[1].why = "detached"
    /\ s2c[1].sent /\ ~GoodReply(s2c[1].wire)
    /\ rpc[1] = "raised" /\ sock[1] = "closed"

\* C18 (as claimed): the ERROR_REQUIREMENTS_MISMATCH reply names every key on
\* which the received descriptor and the server's differ (value changed, key
\* only in the received one, key only in the server's one) and gives, for a key
\* both have, the pair (received, expected).
C18_RequirementsDiff ==
    \A c \in Clients :
        (Replied(c) /\ ReplyDoc(c)["signal"] = "__error_requirements_mismatch") =>
            LET diff == ReplyDoc(c)["params"]["message"].not_met
                received == InRequires(c)
                expected == requires
                differing == {k \in (DOMAIN received) \cup (DOMAIN expected) :
                                 \/ k \notin DOMAIN received
                                 \/ k \notin DOMAIN expected
                                 \/ received[k] # expected[k]}
            IN  /\ DOMAIN diff = differing
                /\ \A k \in (DOMAIN received) \cap (DOMAIN expected) \cap differing :
                      diff[k] = <<received[k], expected[k]>>

\* The attached mapping of the reply written on connection c.
ReplyAttached(c) == ReplyDoc(c)[K_META]["attached"]
\* The positions in the sequence of providers ps whose result has key k.
Giving(ps, k) == {i \in 1 .. Len(ps) : k \in DOMAIN ProviderResult(ps[i])}
\* The largest element of a non-empty set of numbers.
Last(S) == CHOOSE i \in S : \A j \in S : j <= i

\* C19: when the server builds a reply it invokes every provider registered at
\* that time exactly once, in registration order; the attached mapping of the
\* reply has the keys of all their results and, for each key, the value of the
\* last-registered provider that returns it.
C19_MetadataProviders ==
    /\ [](\A c \in Clients : Replied(c) =>
            /\ pcalls[c] = SubSeq(extra_metadata, 1, Len(pcalls[c]))
            /\ \A i, j \in 1 .. Len(pcalls[c]) : pcalls[c][i] = pcalls[c][j] => i = j
            /\ DOMAIN ReplyAttached(c) = {k \in {"stats", "one", "two"} : Giving(pcalls[c], k) # {}}
            /\ \A k \in DOMAIN ReplyAttached(c) :
                  ReplyAttached(c)[k] = ProviderResult(pcalls[c][Last(Giving(pcalls[c], k))])[k])
    /\ [][\A c \in Clients :
            (Replied(c)' /\ ~Replied(c)) => pcalls[c]' = extra_metadata]_vars

\* C19 witness: a reply built with two providers registered: both were invoked,
\* first provider 1 then provider 2, and the key both return has the value of
\* provider 2.
C19_Witness ==
    \E c \in Clients :
        /\ Replied(c)
        /\ pcalls[c] = <<1, 2>>
        /\ ReplyAttached(c)["stats"] = 2
        /\ ReplyAttached(c)["one"] = 1 /\ ReplyAttached(c)["two"] = 2

\* C20: on every accepted connection the worker takes at most one of the five
\* outcomes and keeps it; it writes at most one reply, and only after it took an
\* outcome and no exception left its try block; once the connection is closed
\* nothing is written on it and it stays closed; and the worker ends with the
\* connection closed on every path (reply written, decode failure, handler
\* exception, failure inside _send).
C20_DispatcherStateMachine ==
    /\ [](\A c \in Clients :
            /\ wrk[c].outcome \in {"none", "SelfIgnored", "RequirementsMismatch",
                                   "MetadataHandshake", "SignalDispatched", "SignalNotFound"}
            /\ Decoded(c) => conn[c] \in {"open", "closed"}
            /\ Replied(c) => Decoded(c) /\ exc[c] = "none" /\ wpc[c] = "done"
            /\ wpc[c] = "done" <=> conn[c] = "closed"
            /\ exc[c] # "none" => conn[c] = "closed" /\ ~Replied(c)
            /\ exc[c] \in {"decode"} => ~Decoded(c)
            /\ exc[c] \in {"handler", "provider", "send"} => Decoded(c)
            /\ (wpc[c] = "done" /\ exc[c] = "none") => Replied(c))
    /\ [][\A c \in Clients :
            /\ Decoded(c) => wrk[c]' = wrk[c]
            /\ Replied(c) => s2c[c]' = s2c[c]
            /\ conn[c] = "closed" =>
                  /\ conn[c]' = "closed"
                  /\ s2c[c]' = s2c[c]
                  /\ wpc[c]' = wpc[c]]_vars

\* C20 witness: a worker took the outcome SignalDispatched, its handler returned,
\* and sendall failed because the client had gone: no reply, connection closed.
C20_Witness ==
    \E c \in Clients :
        /\ wrk[c].outcome = "SignalDispatched"
        /\ hcalls[c][1].result = "returned"
        /\ exc[c] = "send"
        /\ ~Replied(c)
        /\ conn[c] = "closed" /\ wpc[c] = "done"

\* C21 (as claimed): under fair scheduling of the server's threads every
\* accepted connection is eventually closed by its worker, which then ends,
\* whatever the peer does after connecting.
C21_WorkerTermination ==
    \A c \in Clients : (conn[c] = "open") ~> (conn[c] = "closed" /\ wpc[c] = "done")

\* What the server keeps for connection c.
WorkerState(c) == <<conn[c], wpc[c], wrk[c], exc[c], s2c[c], hcalls[c], pcalls[c]>>

ReservedNames ==
    {"__error_signal_ignored", "__error_signal_not_found", "__error_requirements_mismatch",
     "__success_signal_processed", "__fetch_socket_metadata"}

\* C23 (as claimed): a handler registered under one of the five reserved names
\* is never invoked.
C23_ReservedPriority ==
    \A c \in Clients : \A i \in 1 .. Len(hcalls[c]) :
        hcalls[c][i].signal \notin ReservedNames

\* C23 (amended): of the five reserved names only FETCH_SOCKET_METADATA takes
\* priority over a registration: a handler registered under it is never invoked
\* (the message is answered by the metadata handshake), while a handler
\* registered under another reserved name is invoked, once, for an admitted
\* message that carries that name, like any registered handler.
C23_FetchPriorityOnly ==
    \A c \in Clients :
        /\ \A i \in 1 .. Len(hcalls[c]) : hcalls[c][i].signal # "__fetch_socket_metadata"
        /\ (Admitted(c) /\ InSignal(c) = "__fetch_socket_metadata") =>
              /\ "__fetch_socket_metadata" \in DOMAIN Registry
              /\ wrk[c].outcome = "MetadataHandshake"
              /\ hcalls[c] = <<>>
        /\ (Admitted(c) /\ InSignal(c) \in (ReservedNames \cap DOMAIN Registry)
               /\ InSignal(c) # "__fetch_socket_metadata") =>
              /\ wrk[c].outcome = "SignalDispatched"
              /\ Len(hcalls[c]) = 1
              /\ hcalls[c][1].signal = InSignal(c)

\* C23 witness: the registry has a handler under SUCCESS_SIGNAL_PROCESSED and a
\* handler under FETCH_SOCKET_METADATA; an admitted message named
\* SUCCESS_SIGNAL_PROCESSED had its handler invoked and was answered.
C23_Witness ==
    \E c \in Clients :
        /\ {"__success_signal_processed", "__fetch_socket_metadata"} \subseteq DOMAIN Registry
        /\ Admitted(c) /\ InSignal(c) = "__success_signal_processed"
        /\ Len(hcalls[c]) = 1 /\ hcalls[c][1].signal = "__success_signal_processed"
        /\ hcalls[c][1].result = "returned"
        /\ Replied(c)

\* server.py:337-346  what get_server_info does with the value send returned:
\* data["__socket_metadata"]; subscripting None raises TypeError, a reply
\* without that key raises KeyError
get_server_info(data) ==
    IF data.state = "none" THEN [state |-> "raised", exception |-> "TypeError"]
    ELSE IF K_META \notin DOMAIN data.doc THEN [state |-> "raised", exception |-> "KeyError"]
    ELSE [state |-> "returned", value |-> data.doc[K_META]]

\* server.py:345  the call of send that get_server_info makes:
\* FETCH_SOCKET_METADATA, params omitted, wait_for_response left True
ServerInfoCall(c) ==
    /\ call[c].kind = "client"
    /\ call[c].signal = FETCH_SOCKET_METADATA
    /\ call[c].obj = 0
    /\ call[c].wait

\* C24: get_server_info returns the metadata portion of the reply to a
\* synchronous FETCH_SOCKET_METADATA; when that send yields no result
\* get_server_info yields no result either and raises nothing.
C24_ServerInfo ==
    \A c \in Clients : (ServerInfoCall(c) /\ cpc[c] = "done") =>
        /\ get_server_info(ret[c]).state # "raised"
        /\ ret[c].state = "data" =>
              get_server_info(ret[c]) = [state |-> "returned", value |-> ret[c].doc[K_META]]

\* C25: the server and the client read once, at most 1024 bytes.  A request
\* longer than 1024 bytes on the wire is never dispatched: no branch is taken, no
\* handler invoked, nothing written, the connection closed.  A reply longer
\* than 1024 bytes makes a synchronous send return None.  A request or a reply
\* of at most 1024 bytes is read whole: a well-formed request is dispatched with
\* the signal it carries, a well-formed reply the client did not give up on is
\* returned as it was written.  No worker goes back to its read, no send to its.
C25_SingleBoundedRead ==
    /\ [](\A c \in Clients :
            /\ (HasRead(c) /\ c2s[c].sent /\ c2s[c].wire.n > 1024) =>
                  /\ Received(c).n = 1024
                  /\ ~Decoded(c) /\ exc[c] = "decode"
                  /\ hcalls[c] = <<>>
                  /\ ~Replied(c)
                  /\ wpc[c] = "done" /\ conn[c] = "closed"
            /\ (HasRead(c) /\ c2s[c].sent /\ c2s[c].wire.n <= 1024) =>
                  /\ Received(c) = c2s[c].wire
                  /\ (c2s[c].wire.z /\ c2s[c].wire.json = "object"
                         /\ "params" \in DOMAIN c2s[c].wire.doc) =>
                        /\ Decoded(c)
                        /\ wrk[c].outcome = "SignalDispatched" => hcalls[c][1].signal = InSignal(c)
            /\ (SyncCall(c) /\ cpc[c] = "done" /\ s2c[c].sent /\ s2c[c].wire.n > 1024) =>
                  ret[c].state = "none"
            /\ (SyncCall(c) /\ cpc[c] = "done" /\ s2c[c].sent /\ s2c[c].wire.n <= 1024) =>
                  /\ ret[c].state = "data" => ret[c].doc = s2c[c].wire.doc
                  /\ (GoodReply(s2c[c].wire) /\ ret[c].why # "timeout") => ret[c].state = "data")
    /\ [][\A c \in Clients :
            /\ (wpc[c] # "recv" /\ wpc[c] # "none") => wpc'[c] # "recv"
            /\ cpc[c] = "done" => cpc'[c] = "done"
            /\ rpc[c] = "done" => rpc'[c] = "done"]_vars

\* C25 witness: a SocketClient sent a request of more than 1024 bytes; the
\* worker read, failed to decode and closed without a reply, and send returned
\* None; the PING of the other client, which fits in one read, was dispatched
\* and its reply returned.
C25_Witness ==
    /\ call[1].kind = "client" /\ call[1].to = "server" /\ call[1].wait
    /\ c2s[1].sent /\ c2s[1].wire.n > 1024 /\ c2s[1].wire.z
    /\ wpc[1] = "done" /\ exc[1] = "decode" /\ conn[1] = "closed" /\ ~Replied(1)
    /\ ret[1].state = "none"
    /\ c2s[2].wire.n <= 1024 /\ Len(hcalls[2]) = 1 /\ Replied(2)
    /\ ret[2].state = "data" /\ ret[2].doc = s2c[2].wire.doc

\* C26: send writes __socket_metadata and __socket_requires into the dict the
\* caller passed (the shared default dict when params is omitted), over any
\* value they had, and changes no other key of it; no other step changes a
\* dict; the dict has the two keys from then on, after send returned a reply
\* and after it returned None (with the values this call wrote, no other send
\* sharing the dict here).
C26_SendFrame ==
    /\ [](\A c \in Clients : (call[c].kind = "client" /\ cpc[c] # "l312") =>
            LET d == heap[call[c].obj]
            IN  /\ {K_META, K_REQ} \subseteq DOMAIN d
                /\ d[K_META] = generate_metadata(call[c].inst, NoneId, ClientUuid(c))
                /\ d[K_REQ] = call[c].requires)
    /\ [][\A o \in DOMAIN heap : heap'[o] # heap[o] =>
            /\ \E c \in Clients : call[c].obj = o /\ cpc[c] = "l312" /\ cpc'[c] = "l318"
            /\ DOMAIN heap'[o] = DOMAIN heap[o] \cup {K_META, K_REQ}
            /\ \A k \in DOMAIN heap[o] \ {K_META, K_REQ} : heap'[o][k] = heap[o][k]]_vars

\* C26 witness: the caller passed a dict that held the two keys from an earlier
\* send and a key of its own; send failed and returned None; the dict has this
\* call's requirements and metadata, and still has the caller's key.
C26_Witness ==
    /\ call[1].kind = "client" /\ call[1].obj = 1 /\ call[1].requires = Req110
    /\ cpc[1] = "done" /\ ret[1].state = "none"
    /\ "kept" \in DOMAIN heap[1] /\ heap[1]["kept"] = 1
    /\ heap[1][K_REQ] = Req110
    /\ heap[1][K_META] = generate_metadata(call[1].inst, NoneId, ClientUuid(1))

\* C27: every socket send opened is closed once the exchange has ended (send
\* has returned and the detached receiver, if one was started, has ended), on
\* every path: reply received, receive timeout, undecodable reply, connection
\* refused, timeout in connect or in sendall.
C27_ClientSocketRelease ==
    \A c \in Clients :
        (call[c].kind = "client" /\ cpc[c] = "done" /\ rpc[c] \in {"none", "done"}) =>
            sock[c] = "closed"

\* C28: when bind or listen fails in the listener thread, or accept fails
\* later, the constructor has returned normally and nothing is raised to the
\* constructing code (the constructor fails for a port out of range only); the
\* step ends the listener thread and changes nothing else; from then on the
\* server accepts no connection, the listener never comes back, and no
\* connection that was not accepted gets a worker.
C28_ListenerFailure ==
    /\ [](listener = "failed" => (port < 49152 \/ port > 65535))
    /\ [](listener = "dead" =>
            /\ port >= 49152 /\ port <= 65535
            /\ \A c \in Clients : ~ENABLED Accept(c))
    /\ [][(listener # "dead" /\ listener' = "dead") =>
            /\ listener \in {"starting", "listening"}
            /\ UNCHANGED <<port, requires, extra_metadata>>
            /\ UNCHANGED cliVars
            /\ UNCHANGED wrkVars]_vars
    /\ [][listener = "dead" =>
            /\ listener' = "dead"
            /\ \A c \in Clients : conn[c] \in {"none", "pending"} =>
                  conn'[c] = conn[c] /\ wpc'[c] = "none"]_vars

\* C28 witness: the port was in range and the constructor returned; the
\* listener thread ended before it accepted anything; a client that connected
\* afterwards was refused and no connection was ever accepted.
C28_Witness ==
    /\ port = 49152
    /\ listener = "dead"
    /\ \A c \in Clients : conn[c] = "none" /\ wpc[c] = "none"
    /\ ret[2].state = "none" /\ ret[2].why = "refused"

\* C29: when a metadata provider raises while a reply is being built, nothing
\* is written on that connection and the connection is closed, also when the
\* handler of that connection has been invoked and has returned (the record of
\* its call stays, the synchronous client gets None); the step leaves the
\* listener and every other connection as they were, and the listener can
\* still accept.
C29_ProviderFailure ==
    /\ [](\A c \in Clients : exc[c] = "provider" =>
            /\ ~Replied(c)
            /\ wpc[c] = "done" /\ conn[c] = "closed"
            /\ pcalls[c] # <<>>
            /\ wrk[c].outcome = "SignalDispatched" =>
                  Len(hcalls[c]) = 1 /\ hcalls[c][1].result = "returned"
            /\ (SyncCall(c) /\ cpc[c] = "done") => ret[c].state = "none")
    /\ [][\A c \in Clients : (exc'[c] = "provider" /\ exc[c] # "provider") =>
            /\ wpc[c] = "send"
            /\ listener' = listener
            /\ hcalls' = hcalls
            /\ \A d \in Clients \ {c} : WorkerState(d)' = WorkerState(d)
            /\ \A d \in Clients : (listener = "listening" /\ conn[d] = "pending") =>
                  (ENABLED Accept(d))']_vars

\* C29 witness: the handler of connection 1 returned, then a provider raised:
\* nothing was written, the connection is closed and send returned None; the
\* listener is up and can accept connection 2, which is waiting.
C29_Witness ==
    /\ exc[1] = "provider"
    /\ Len(hcalls[1]) = 1 /\ hcalls[1][1].result = "returned"
    /\ conn[1] = "closed" /\ ~Replied(1)
    /\ cpc[1] = "done" /\ ret[1].state = "none"
    /\ listener = "listening" /\ conn[2] = "pending" /\ ENABLED Accept(2)

\* The providers in the sequence funcs.
Providers(funcs) == {funcs[i] : i \in 1 .. Len(funcs)}

\* C30: a provider is attached only once the constructor has started the
\* listener thread, to a list that was empty then; the keys of a reply's
\* attached mapping are those of the providers attached before the reply was
\* built, and no others (so a reply built between construction and
\* attach_metadata lacks the provider's keys, and every reply built afterwards
\* has them); attaching changes no reply already
\* written; and the registry passed to the constructor is complete from the
\* first connection on: an admitted message with a registered signal is never
\* answered as not found.
C30_ProviderWindow ==
    /\ [][extra_metadata' # extra_metadata =>
            /\ listener \notin {"unbuilt", "failed"}
            /\ \E p \in 1 .. MaxProviders : extra_metadata' = Append(extra_metadata, p)
            /\ s2c' = s2c]_vars
    /\ [][\A c \in Clients : (Replied(c)' /\ ~Replied(c)) =>
            DOMAIN ReplyAttached(c)' =
                UNION {DOMAIN ProviderResult(p) : p \in Providers(extra_metadata)}]_vars
    /\ [](\A c \in Clients :
            (Admitted(c) /\ InSignal(c) \in DOMAIN Registry
                /\ InSignal(c) # FETCH_SOCKET_METADATA) =>
                wrk[c].outcome = "SignalDispatched")

\* C30 witness: a request was answered before any provider was attached, so its
\* reply has an empty attached mapping; a provider has been attached since.
C30_Witness ==
    \E c \in Clients :
        /\ Replied(c)
        /\ ReplyAttached(c) = EmptyDict
        /\ pcalls[c] = <<>>
        /\ Len(extra_metadata) >= 1

====
